---- MODULE Spec2Model ----
(***************************************************************************)
(* The streaming session of backend/app/routes/stt.py: one invocation of   *)
(* websocket_transcribe, the coroutine that serves one WebSocket           *)
(* connection, together with the client that feeds it and the three        *)
(* stages it calls (transcribe_chunk, translator.translate_to_gloss,       *)
(* renderer.get_poses_from_gloss).                                         *)
(*                                                                         *)
(* The coroutine is sequential.  Its position is pc; it gives up control   *)
(* only at its awaits (websocket.receive, asyncio.to_thread, send_json),   *)
(* so every action below runs from one await to the next.  The client      *)
(* runs concurrently and may put messages on the connection at any time,   *)
(* including while a stage of a run is executing.                          *)
(*                                                                         *)
(* Audio bytes are named by their position in the client's stream (the     *)
(* first byte sent is 1, the second 2, ...).  The code never looks at a    *)
(* byte's value (only the voice-activity oracle does, and its verdict is   *)
(* an input here), so distinct names lose no behaviour and make loss,      *)
(* duplication and reordering visible.                                     *)
(***************************************************************************)
EXTENDS Integers, Sequences, FiniteSets, TLC

(***************************************************************************)
(* Bounds of the model.  VAD_CHUNK_SIZE and RING_MAXLEN are the code's     *)
(* frame length (960 bytes) and trailing-window capacity (66 frames)       *)
(* scaled down; the code uses them only through len(), slicing and ==.     *)
(***************************************************************************)
VAD_CHUNK_SIZE == 2

RING_MAXLEN == 2

MaxPayload == 4

MaxMsgs == 3

MaxInFlight == 1

\* the longest gloss, in tokens, handed to the renderer called on its own
MaxTokens == 2

VARIABLES
    \* process-wide collaborators, fixed before the connection is accepted
    stt_model,          \* stt.py:30/36   TRUE: WhisperModel loaded, FALSE: None
    translator_model,   \* translator.py:16-33  TRUE: T5 model loaded, FALSE: None
    pose_dictionary,    \* attribute renderer.pose_dictionary read at stt.py:71
    \* the client and the transport
    inbound,            \* messages sent by the client, not yet received
    nSent,              \* number of messages the client has sent
    nBytes,             \* number of audio bytes the client has sent
    clientGone,         \* the client has disconnected
    events,             \* outbound events handed to the transport, in order
    closeCode,          \* how the connection ended (0: still open)
    \* the coroutine websocket_transcribe
    pc,
    ring_buffer,
    speech_buffer,
    unprocessed_audio,
    triggered,
    is_transcribing,
    audio_to_transcribe,
    transcription,
    asl_gloss,
    pose_array,
    \* observation of the run (read by no action)
    received,           \* concatenation of the payloads received so far
    frames,             \* the frames cut by the chunker, in order
    labels,             \* the oracle's verdict on each frame of frames
    boundaries,         \* indices (into frames) at which utterance-end was declared
    runs,               \* the pipeline runs started, in order
    calls,              \* the stage invocations, in order
    handled             \* the control messages and disconnects received, in
                        \* order, each with the state it was received in

envVars == <<stt_model, translator_model, pose_dictionary>>

netVars == <<inbound, nSent, nBytes, clientGone, events, closeCode>>

segVars == <<ring_buffer, speech_buffer, unprocessed_audio, triggered>>

runVars == <<is_transcribing, audio_to_transcribe, transcription, asl_gloss, pose_array>>

obsVars == <<received, frames, labels, boundaries, runs, calls, handled>>

vars == <<envVars, netVars, pc, segVars, runVars, obsVars>>

----------------------------------------------------------------------------
(* Messages *)

\* The text frames a client may send, and what json.loads makes of them.
STOP_TEXT == "{\"text\": \"STOP\"}"

OTHER_TEXT == "{\"text\": \"PING\"}"

NOT_JSON_TEXT == "STOP"

NOT_OBJECT_TEXT == "[1]"

TextFrames == {STOP_TEXT, OTHER_TEXT, NOT_JSON_TEXT, NOT_OBJECT_TEXT}

\* json.loads(message["text"]): "error" stands for JSONDecodeError, "list" for
\* a value without .get, and an object is given by its "text" field.
JsonLoads(text) ==
    CASE text = STOP_TEXT       -> [kind |-> "object", text |-> "STOP"]
      [] text = OTHER_TEXT      -> [kind |-> "object", text |-> "PING"]
      [] text = NOT_OBJECT_TEXT -> [kind |-> "list", text |-> ""]
      [] OTHER                  -> [kind |-> "error", text |-> ""]

\* The next n bytes of the client's stream.
Payload(from, n) == [i \in 1..n |-> from + i]

----------------------------------------------------------------------------
(* Frame chunker: stt.py:94-96 *)

\* a slip in the slice: unprocessed_audio[:VAD_CHUNK_SIZE - 1]
ChunkOf_OneShort(buf) == SubSeq(buf, 1, VAD_CHUNK_SIZE - 1)

\* chunk = unprocessed_audio[:VAD_CHUNK_SIZE]
ChunkOf(buf) == SubSeq(buf, 1, VAD_CHUNK_SIZE)

\* a slip in the slice: unprocessed_audio[VAD_CHUNK_SIZE + 1:]
RestOf_SkipsOne(buf) == SubSeq(buf, VAD_CHUNK_SIZE + 2, Len(buf))

\* unprocessed_audio = unprocessed_audio[VAD_CHUNK_SIZE:]
RestOf(buf) == SubSeq(buf, VAD_CHUNK_SIZE + 1, Len(buf))

\* while len(unprocessed_audio) >= VAD_CHUNK_SIZE
HasFrame(buf) == Len(buf) >= VAD_CHUNK_SIZE

----------------------------------------------------------------------------
(* Trailing window: collections.deque(maxlen=RING_MAXLEN), stt.py:79,109-115 *)

\* ring_buffer.append(x) on a deque with maxlen: the oldest entry is evicted
DequeAppend(d, x) ==
    IF Len(d) >= RING_MAXLEN THEN Append(Tail(d), x) ELSE Append(d, x)

\* len([f for f, speech in ring_buffer if not speech])
NumUnvoiced(d) == Cardinality({i \in 1..Len(d) : ~d[i][2]})

\* if triggered and not is_transcribing: ... if num_unvoiced == ring_buffer.maxlen
PauseDetected(trig, gate, d) ==
    trig /\ ~gate /\ NumUnvoiced(d) = RING_MAXLEN

\* the segmenter without "triggered = False" at the boundary
Segment_StaysTriggered(trig, sb, rb, gate, chunk, is_speech) ==
    LET trig1 == trig \/ is_speech
        sb1   == IF is_speech THEN sb \o chunk ELSE sb
        rb1   == DequeAppend(rb, <<chunk, is_speech>>)
    IN  IF PauseDetected(trig1, gate, rb1)
        THEN [boundary |-> TRUE, audio |-> sb1, triggered |-> trig1,
              speech_buffer |-> <<>>, ring_buffer |-> <<>>]
        ELSE [boundary |-> FALSE, audio |-> <<>>, triggered |-> trig1,
              speech_buffer |-> sb1, ring_buffer |-> rb1]

\* the segmenter appending every frame once triggered, whatever its label
Segment_KeepsEveryFrame(trig, sb, rb, gate, chunk, is_speech) ==
    LET trig1 == trig \/ is_speech
        sb1   == IF trig1 THEN sb \o chunk ELSE sb
        rb1   == DequeAppend(rb, <<chunk, is_speech>>)
    IN  IF PauseDetected(trig1, gate, rb1)
        THEN [boundary |-> TRUE, audio |-> sb1, triggered |-> FALSE,
              speech_buffer |-> <<>>, ring_buffer |-> <<>>]
        ELSE [boundary |-> FALSE, audio |-> <<>>, triggered |-> trig1,
              speech_buffer |-> sb1, ring_buffer |-> rb1]

\* the segmenter without ring_buffer.clear() at the boundary
Segment_KeepsWindow(trig, sb, rb, gate, chunk, is_speech) ==
    LET trig1 == trig \/ is_speech
        sb1   == IF is_speech THEN sb \o chunk ELSE sb
        rb1   == DequeAppend(rb, <<chunk, is_speech>>)
    IN  IF PauseDetected(trig1, gate, rb1)
        THEN [boundary |-> TRUE, audio |-> sb1, triggered |-> FALSE,
              speech_buffer |-> <<>>, ring_buffer |-> rb1]
        ELSE [boundary |-> FALSE, audio |-> <<>>, triggered |-> trig1,
              speech_buffer |-> sb1, ring_buffer |-> rb1]

\* the segmenter without speech_buffer.clear() at the boundary
Segment_KeepsBuffer(trig, sb, rb, gate, chunk, is_speech) ==
    LET trig1 == trig \/ is_speech
        sb1   == IF is_speech THEN sb \o chunk ELSE sb
        rb1   == DequeAppend(rb, <<chunk, is_speech>>)
    IN  IF PauseDetected(trig1, gate, rb1)
        THEN [boundary |-> TRUE, audio |-> sb1, triggered |-> FALSE,
              speech_buffer |-> sb1, ring_buffer |-> <<>>]
        ELSE [boundary |-> FALSE, audio |-> <<>>, triggered |-> trig1,
              speech_buffer |-> sb1, ring_buffer |-> rb1]

\* stt.py:105-125, the segmenter's step on one classified frame: the state it
\* leaves and whether it declared an utterance-end (and with which audio).
Segment(trig, sb, rb, gate, chunk, is_speech) ==
    LET trig1 == trig \/ is_speech
        sb1   == IF is_speech THEN sb \o chunk ELSE sb
        rb1   == DequeAppend(rb, <<chunk, is_speech>>)
    IN  IF PauseDetected(trig1, gate, rb1)
        THEN [boundary |-> TRUE, audio |-> sb1, triggered |-> FALSE,
              speech_buffer |-> <<>>, ring_buffer |-> <<>>]
        ELSE [boundary |-> FALSE, audio |-> <<>>, triggered |-> trig1,
              speech_buffer |-> sb1, ring_buffer |-> rb1]

\* a frame the classifier failed on taken for a non-speech frame
SegmentOrSkip_ErrorIsSilence(trig, sb, rb, gate, chunk, lab) ==
    Segment(trig, sb, rb, gate, chunk, lab = "speech")

\* stt.py:98-125, one frame with the classifier's answer lab: when
\* vad.is_speech raises ("error") the except clause prints and does
\* "continue", so the frame reaches neither buffer and no check is made.
SegmentOrSkip(trig, sb, rb, gate, chunk, lab) ==
    IF lab = "error"
    THEN [boundary |-> FALSE, audio |-> <<>>, triggered |-> trig,
          speech_buffer |-> sb, ring_buffer |-> rb]
    ELSE Segment(trig, sb, rb, gate, chunk, lab = "speech")

----------------------------------------------------------------------------
(* The stages.  Each takes, besides its argument, what the engine behind it
   produced on this call: a text, or RAISES when it threw. *)

RAISES == "<exception>"

\* "".join(segment.text for segment in segments): Whisper's raw output
SegmentTexts == {" Hello", " "}

\* tokenizer.decode(...): the T5 decoder's raw output
DecoderTexts == {"hello fs-ab ", "xyz", ""}

\* str.strip() on the texts above
Strip(s) ==
    CASE s = " Hello"       -> "Hello"
      [] s = " "            -> ""
      [] s = "hello fs-ab " -> "hello fs-ab"
      [] OTHER              -> s

\* str.lower()
Lower(s) ==
    CASE s = "Hello"  -> "hello"
      [] s = " Hello" -> " hello"
      [] OTHER        -> s

\* transcribe_chunk, stt.py:40-62
TranscribeChunk(audio_chunk, out) ==
    IF ~stt_model THEN ""
    ELSE IF out = RAISES THEN ""
    ELSE Strip(out)

\* transcribe_chunk failed: the except clause of stt.py:60-62 was taken
TranscribeOutcome(out) ==
    IF ~stt_model \/ out = RAISES THEN "failed" ELSE "returned"

\* preprocess_text, translator.py:36-41
preprocess_text(text) ==
    IF text = "" THEN "" ELSE Strip(Lower(text))

\* translate_to_gloss, translator.py:44-77
translate_to_gloss(text, out) ==
    IF ~translator_model THEN "ERROR: MODEL NOT LOADED"
    ELSE IF preprocess_text(text) = "" THEN ""
    ELSE IF out = RAISES THEN "ERROR: TRANSLATION FAILED"
    ELSE Strip(out)

\* translate_to_gloss failed: the model is missing (translator.py:49-51) or
\* the except clause of translator.py:73-77 was taken
TranslateOutcome(text, out) ==
    IF ~translator_model THEN "failed"
    ELSE IF preprocess_text(text) = "" THEN "returned"
    ELSE IF out = RAISES THEN "failed" ELSE "returned"

\* The characters of the texts a gloss can be in this model.
Chars(s) ==
    CASE s = "hello fs-ab" -> <<"h", "e", "l", "l", "o", " ", "f", "s", "-", "a", "b">>
      [] s = "xyz"         -> <<"x", "y", "z">>
      [] s = "ERROR: TRANSLATION FAILED" ->
            <<"E", "R", "R", "O", "R", ":", " ", "T", "R", "A", "N", "S", "L", "A", "T", "I", "O", "N", " ", "F", "A", "I", "L", "E", "D">>
      [] s = "ERROR: MODEL NOT LOADED" ->
            <<"E", "R", "R", "O", "R", ":", " ", "M", "O", "D", "E", "L", " ", "N", "O", "T", " ", "L", "O", "A", "D", "E", "D">>
      [] OTHER             -> <<>>

\* str.upper(), character by character
UpperChar(c) ==
    CASE c = "a" -> "A" [] c = "b" -> "B" [] c = "e" -> "E" [] c = "f" -> "F"
      [] c = "h" -> "H" [] c = "l" -> "L" [] c = "o" -> "O" [] c = "s" -> "S"
      [] c = "x" -> "X" [] c = "y" -> "Y" [] c = "z" -> "Z"
      [] OTHER   -> c

Upper(str) == [i \in 1..Len(str) |-> UpperChar(str[i])]

RECURSIVE Split(_)
\* str.split(): the maximal runs of characters other than white space
Split(str) ==
    IF str = <<>> THEN <<>>
    ELSE IF Head(str) = " " THEN Split(Tail(str))
    ELSE LET spaces == {i \in 1..Len(str) : str[i] = " "}
             stop   == IF spaces = {} THEN Len(str) + 1
                       ELSE CHOOSE i \in spaces : \A j \in spaces : i <= j
         IN  <<SubSeq(str, 1, stop - 1)>> \o Split(SubSeq(str, stop, Len(str)))

\* The poses table of pose_dictionary.db: gloss -> pose frames; <<>> for a
\* gloss with no row (cursor.fetchone() is None).  The rows hold well-formed
\* JSON lists.
PoseRows(gloss) ==
    CASE gloss = <<"H", "E", "L", "L", "O">> -> <<"HELLO.1", "HELLO.2">>
      [] gloss = <<"A">>                     -> <<"A.1">>
      [] OTHER                               -> <<>>

\* token.startswith("FS-")
IsFingerspelled(token) ==
    Len(token) >= 3 /\ SubSeq(token, 1, 3) = <<"F", "S", "-">>

\* token.split("-", 1)[1]: what follows the first "-" of a token that has one
FsName(token) ==
    LET dashes == {i \in 1..Len(token) : token[i] = "-"}
        first  == CHOOSE i \in dashes : \A j \in dashes : i <= j
    IN  SubSeq(token, first + 1, Len(token))

RECURSIVE LookupAll(_)
\* renderer.py:49-57, the loop over the characters of a name: the rows of the
\* characters, concatenated; a character with no row is skipped
LookupAll(name) ==
    IF name = <<>> THEN <<>>
    ELSE PoseRows(<<Head(name)>>) \o LookupAll(Tail(name))

RECURSIVE PosesOfTokens(_)
\* the loop over tokens left at the first token without a row
PosesOfTokens_StopsAtUnknown(tokens) ==
    IF tokens = <<>> THEN <<>>
    ELSE IF IsFingerspelled(Head(tokens))
    THEN LookupAll(FsName(Head(tokens))) \o PosesOfTokens(Tail(tokens))
    ELSE IF PoseRows(Head(tokens)) = <<>> THEN <<>>
    ELSE PoseRows(Head(tokens)) \o PosesOfTokens(Tail(tokens))

\* renderer.py:44-69, the loop over tokens
PosesOfTokens(tokens) ==
    IF tokens = <<>> THEN <<>>
    ELSE (IF IsFingerspelled(Head(tokens))
          THEN LookupAll(FsName(Head(tokens)))
          ELSE PoseRows(Head(tokens))) \o PosesOfTokens(Tail(tokens))

\* The state of the database file on one call.
DbStates == {"ok", "missing", "sqlerror"}

\* get_poses_from_gloss, renderer.py:23-92, on the characters of gloss_string
get_poses_from_gloss(gloss_string, db) ==
    IF gloss_string = <<>> THEN <<>>
    ELSE IF db = "missing" THEN <<>>
    ELSE IF db = "sqlerror" THEN <<>>
    ELSE PosesOfTokens(Split(Upper(gloss_string)))

\* get_poses_from_gloss failed: the database file is missing
\* (renderer.py:31-33) or sqlite3 raised (renderer.py:78-80)
RenderOutcome(gloss_string, db) ==
    IF gloss_string # "" /\ db # "ok" THEN "failed" ELSE "returned"

----------------------------------------------------------------------------
(* Observation helpers *)

Run(kind, audio) ==
    [kind |-> kind, audio |-> audio, frame |-> Len(frames), status |-> "pending"]

Call(stage, audio, text) ==
    [stage |-> stage, run |-> Len(runs), audio |-> audio, text |-> text,
     outcome |-> "pending"]

\* the last call made has come back, with the given outcome: "returned" when
\* the stage did its work, "failed" when it caught an error of its own
Returned(outcome) == [calls EXCEPT ![Len(calls)].outcome = outcome]

Event(type, text, poses) ==
    [type |-> type, run |-> Len(runs), text |-> text, poses |-> poses]

\* the record of receiving message m
Handled(m) ==
    [msg |-> m, buffer |-> speech_buffer, gate |-> is_transcribing,
     nRuns |-> Len(runs), nCalls |-> Len(calls), nEvents |-> Len(events),
     nFrames |-> Len(frames)]

\* the runs not yet ended
RunsInProgress == {r \in 1..Len(runs) : runs[r].status = "pending"}

\* the current run (the last one started) ends with the given status
EndRun(status) == [runs EXCEPT ![Len(runs)].status = status]

----------------------------------------------------------------------------
(* Initial state: the process has loaded (or failed to load) its models, the
   connection has been accepted (stt.py:68) and the per-connection state of
   stt.py:79-83 is fresh. *)

Init ==
    /\ stt_model \in BOOLEAN
    /\ translator_model \in BOOLEAN
    /\ pose_dictionary \in {"absent", "empty", "loaded"}
    /\ inbound = <<>>
    /\ nSent = 0
    /\ nBytes = 0
    /\ clientGone = FALSE
    /\ events = <<>>
    /\ closeCode = 0
    /\ pc = "accepted"
    /\ ring_buffer = <<>>
    /\ speech_buffer = <<>>
    /\ unprocessed_audio = <<>>
    /\ triggered = FALSE
    /\ is_transcribing = FALSE
    /\ audio_to_transcribe = <<>>
    /\ transcription = ""
    /\ asl_gloss = ""
    /\ pose_array = <<>>
    /\ received = <<>>
    /\ frames = <<>>
    /\ labels = <<>>
    /\ boundaries = <<>>
    /\ runs = <<>>
    /\ calls = <<>>
    /\ handled = <<>>

----------------------------------------------------------------------------
(* The client *)

\* a message; duringRun notes whether a pipeline run was in progress when the
\* client sent it
Message(kind, bytes, text) ==
    [kind |-> kind, bytes |-> bytes, text |-> text, duringRun |-> RunsInProgress # {}]

ClientCanSend ==
    /\ ~clientGone
    /\ pc \notin {"closed", "raised"}
    /\ nSent < MaxMsgs
    /\ Len(inbound) < MaxInFlight

ClientSendBytes ==
    /\ ClientCanSend
    /\ \E n \in 0..MaxPayload :
          /\ inbound' = Append(inbound, Message("bytes", Payload(nBytes, n), ""))
          /\ nBytes' = nBytes + n
    /\ nSent' = nSent + 1
    /\ UNCHANGED <<envVars, clientGone, events, closeCode, pc, segVars, runVars, obsVars>>

ClientSendText ==
    /\ ClientCanSend
    /\ \E t \in TextFrames :
          inbound' = Append(inbound, Message("text", <<>>, t))
    /\ nSent' = nSent + 1
    /\ UNCHANGED <<envVars, nBytes, clientGone, events, closeCode, pc, segVars, runVars, obsVars>>

ClientDisconnect ==
    /\ ~clientGone
    /\ pc \notin {"closed", "raised"}
    /\ clientGone' = TRUE
    /\ inbound' = Append(inbound, Message("disconnect", <<>>, ""))
    /\ UNCHANGED <<envVars, nSent, nBytes, events, closeCode, pc, segVars, runVars, obsVars>>

----------------------------------------------------------------------------
(* Readiness check, stt.py:71-74.  The operands of the "or" are evaluated left
   to right and only as far as needed; reading an attribute the renderer
   module does not define raises AttributeError, outside the try block. *)

SetupNotReady ==
    /\ pc = "accepted"
    /\ \/ ~stt_model
       \/ stt_model /\ ~translator_model
       \/ stt_model /\ translator_model /\ pose_dictionary = "empty"
    /\ closeCode' = 1011
    /\ pc' = "closed"
    /\ UNCHANGED <<envVars, inbound, nSent, nBytes, clientGone, events, segVars, runVars, obsVars>>

SetupRaises ==
    /\ pc = "accepted"
    /\ stt_model /\ translator_model /\ pose_dictionary = "absent"
    /\ pc' = "raised"
    /\ UNCHANGED <<envVars, netVars, segVars, runVars, obsVars>>

\* the setup check without "not translator.model"
SetupReady_ChecksOnlyRecognizer ==
    /\ pc = "accepted"
    /\ stt_model /\ pose_dictionary = "loaded"
    /\ pc' = "receive"
    /\ UNCHANGED <<envVars, netVars, segVars, runVars, obsVars>>

\* This revision of renderer.py defines no pose_dictionary (pose_dictionary =
\* "absent"); the loop below is reached by a process whose renderer module has
\* a non-empty one.
SetupReady ==
    /\ pc = "accepted"
    /\ stt_model /\ translator_model /\ pose_dictionary = "loaded"
    /\ pc' = "receive"
    /\ UNCHANGED <<envVars, netVars, segVars, runVars, obsVars>>

----------------------------------------------------------------------------
(* Intake loop, audio: stt.py:86-163 *)

\* message = await websocket.receive(); "bytes" in message: stt.py:87-91
ReceiveBytes ==
    /\ pc = "receive"
    /\ inbound # <<>>
    /\ Head(inbound).kind = "bytes"
    /\ inbound' = Tail(inbound)
    /\ unprocessed_audio' = unprocessed_audio \o Head(inbound).bytes
    /\ received' = received \o Head(inbound).bytes
    /\ pc' = "chunk"
    /\ UNCHANGED <<envVars, nSent, nBytes, clientGone, events, closeCode,
                   ring_buffer, speech_buffer, triggered, runVars,
                   frames, labels, boundaries, runs, calls, handled>>

\* the while condition of stt.py:94 is false: back to websocket.receive()
ChunkLoopExit ==
    /\ pc = "chunk"
    /\ ~HasFrame(unprocessed_audio)
    /\ pc' = "receive"
    /\ UNCHANGED <<envVars, netVars, segVars, runVars, obsVars>>

\* the pipeline started without being awaited: the run is left to itself, the
\* gate is released and the frame loop goes on
StartBoundaryRun_NotAwaited(audio) ==
    /\ is_transcribing' = FALSE
    /\ runs' = Append(runs, Run("boundary", audio))
    /\ calls' = Append(calls, [stage |-> "recognize", run |-> Len(runs) + 1,
                               audio |-> audio, text |-> "",
                               outcome |-> "pending"])
    /\ pc' = "chunk"

\* stt.py:127-135, after the buffers were reset: an empty copy releases the
\* gate and goes on with the next frame; otherwise recognition is handed to a
\* worker thread and the coroutine waits for it.
StartBoundaryRun(audio) ==
    IF audio = <<>>
    THEN /\ is_transcribing' = FALSE
         /\ pc' = "chunk"
         /\ UNCHANGED <<runs, calls>>
    ELSE /\ is_transcribing' = TRUE
         /\ runs' = Append(runs, Run("boundary", audio))
         /\ calls' = Append(calls, [stage |-> "recognize", run |-> Len(runs) + 1,
                                    audio |-> audio, text |-> "",
                               outcome |-> "pending"])
         /\ pc' = "stt"

\* One iteration of the while loop of stt.py:94-135, up to its first await.
\* lab is the oracle's answer for the frame: "speech", "silence", or "error"
\* when vad.is_speech raises.
ProcessFrame ==
    /\ pc = "chunk"
    /\ HasFrame(unprocessed_audio)
    /\ \E lab \in {"speech", "silence", "error"} :
        LET chunk == ChunkOf(unprocessed_audio)
            seg   == SegmentOrSkip(triggered, speech_buffer, ring_buffer,
                                   is_transcribing, chunk, lab)
        IN  /\ unprocessed_audio' = RestOf(unprocessed_audio)
            /\ frames' = Append(frames, chunk)
            /\ labels' = Append(labels, lab)
            /\ triggered' = seg.triggered
            /\ speech_buffer' = seg.speech_buffer
            /\ ring_buffer' = seg.ring_buffer
            /\ IF seg.boundary
               THEN /\ audio_to_transcribe' = seg.audio
                    /\ boundaries' = Append(boundaries, Len(frames) + 1)
                    /\ StartBoundaryRun(seg.audio)
               ELSE /\ pc' = "chunk"
                    /\ UNCHANGED <<is_transcribing, audio_to_transcribe,
                                   boundaries, runs, calls>>
            /\ UNCHANGED <<transcription, asl_gloss, pose_array>>
    /\ UNCHANGED <<envVars, netVars, received, handled>>

\* the empty-text path without "is_transcribing = False"
TranscribeReturns_KeepsGate ==
    /\ pc = "stt"
    /\ \E out \in SegmentTexts \cup {RAISES} :
        LET text == TranscribeChunk(audio_to_transcribe, out)
        IN  /\ transcription' = text
            /\ calls' = Returned(TranscribeOutcome(out))
            /\ IF text = ""
               THEN /\ runs' = EndRun("empty")
                    /\ pc' = "chunk"
                    /\ UNCHANGED is_transcribing
               ELSE /\ pc' = "send_final"
                    /\ UNCHANGED <<is_transcribing, runs>>
    /\ UNCHANGED <<envVars, netVars, segVars, audio_to_transcribe, asl_gloss, pose_array,
                   received, frames, labels, boundaries, handled>>

\* an exception of the recognition engine let through to the coroutine, whose
\* handler of stt.py:226-227 ends the session
TranscribeReturns_Propagates ==
    /\ pc = "stt"
    /\ \E out \in SegmentTexts \cup {RAISES} :
        LET text == TranscribeChunk(audio_to_transcribe, out)
        IN  /\ transcription' = text
            /\ calls' = Returned(TranscribeOutcome(out))
            /\ IF out = RAISES
               THEN /\ pc' = "closed"
                    /\ UNCHANGED <<is_transcribing, runs>>
               ELSE IF text = ""
               THEN /\ is_transcribing' = FALSE
                    /\ runs' = EndRun("empty")
                    /\ pc' = "chunk"
               ELSE /\ pc' = "send_final"
                    /\ UNCHANGED <<is_transcribing, runs>>
    /\ UNCHANGED <<envVars, netVars, segVars, audio_to_transcribe, asl_gloss, pose_array,
                   received, frames, labels, boundaries, handled>>

\* transcribe_chunk returns: stt.py:133-139
TranscribeReturns ==
    /\ pc = "stt"
    /\ \E out \in SegmentTexts \cup {RAISES} :
        LET text == TranscribeChunk(audio_to_transcribe, out)
        IN  /\ transcription' = text
            /\ calls' = Returned(TranscribeOutcome(out))
            /\ IF text = ""
               THEN /\ is_transcribing' = FALSE
                    /\ runs' = EndRun("empty")
                    /\ pc' = "chunk"
               ELSE /\ pc' = "send_final"
                    /\ UNCHANGED <<is_transcribing, runs>>
    /\ UNCHANGED <<envVars, netVars, segVars, audio_to_transcribe, asl_gloss, pose_array,
                   received, frames, labels, boundaries, handled>>

\* the gate released as soon as the text has been sent
SendFinal_ReleasesGate ==
    /\ pc = "send_final"
    /\ events' = Append(events, Event("final", transcription, <<>>))
    /\ calls' = Append(calls, Call("translate", <<>>, transcription))
    /\ is_transcribing' = FALSE
    /\ pc' = "translate"
    /\ UNCHANGED <<envVars, inbound, nSent, nBytes, clientGone, closeCode, segVars,
                   audio_to_transcribe, transcription, asl_gloss, pose_array,
                   received, frames, labels, boundaries, runs, handled>>

\* await websocket.send_json({"final": transcription}), then translation is
\* handed to a worker thread: stt.py:142-147
SendFinal ==
    /\ pc = "send_final"
    /\ events' = Append(events, Event("final", transcription, <<>>))
    /\ calls' = Append(calls, Call("translate", <<>>, transcription))
    /\ pc' = "translate"
    /\ UNCHANGED <<envVars, inbound, nSent, nBytes, clientGone, closeCode, segVars, runVars,
                   received, frames, labels, boundaries, runs, handled>>

\* translate_to_gloss returns and get_poses_from_gloss runs in the coroutine:
\* stt.py:145-152
TranslateReturns ==
    /\ pc = "translate"
    /\ \E out \in DecoderTexts \cup {RAISES}, db \in DbStates :
        LET gloss == translate_to_gloss(transcription, out)
        IN  /\ asl_gloss' = gloss
            /\ pose_array' = get_poses_from_gloss(Chars(gloss), db)
            /\ calls' = Append(Returned(TranslateOutcome(transcription, out)),
                               [Call("render", <<>>, gloss)
                                   EXCEPT !.outcome = RenderOutcome(gloss, db)])
    /\ pc' = "send_poses"
    /\ UNCHANGED <<envVars, netVars, segVars, is_transcribing, audio_to_transcribe,
                   transcription, received, frames, labels, boundaries, runs, handled>>

\* the poses sent only when there are some
SendPoses_SkipsEmpty ==
    /\ pc = "send_poses"
    /\ events' = IF pose_array # <<>>
                  THEN Append(events, Event("poses", "", pose_array))
                  ELSE events
    /\ is_transcribing' = FALSE
    /\ runs' = EndRun("succeeded")
    /\ pc' = "chunk"
    /\ UNCHANGED <<envVars, inbound, nSent, nBytes, clientGone, closeCode, segVars,
                   audio_to_transcribe, transcription, asl_gloss, pose_array,
                   received, frames, labels, boundaries, calls, handled>>

\* await websocket.send_json({"poses": ...}), then the gate is released:
\* stt.py:155-163
SendPoses ==
    /\ pc = "send_poses"
    /\ events' = Append(events, Event("poses", "", pose_array))
    /\ is_transcribing' = FALSE
    /\ runs' = EndRun("succeeded")
    /\ pc' = "chunk"
    /\ UNCHANGED <<envVars, inbound, nSent, nBytes, clientGone, closeCode, segVars,
                   audio_to_transcribe, transcription, asl_gloss, pose_array,
                   received, frames, labels, boundaries, calls, handled>>

----------------------------------------------------------------------------
(* Intake loop, control messages: stt.py:165-219 *)

TextReceived ==
    /\ pc = "receive"
    /\ inbound # <<>>
    /\ Head(inbound).kind = "text"

\* a malformed text message flushing the utterance buffer before the loop is
\* left
ReceiveBadText_FlushesBuffer ==
    /\ TextReceived
    /\ JsonLoads(Head(inbound).text).kind # "object"
    /\ inbound' = Tail(inbound)
    /\ handled' = Append(handled, Handled(Head(inbound)))
    /\ IF speech_buffer # <<>> /\ ~is_transcribing
       THEN /\ is_transcribing' = TRUE
            /\ audio_to_transcribe' = speech_buffer
            /\ speech_buffer' = <<>>
            /\ runs' = Append(runs, Run("stop", speech_buffer))
            /\ calls' = Append(calls, [stage |-> "recognize", run |-> Len(runs) + 1,
                                       audio |-> speech_buffer, text |-> "",
                                       outcome |-> "pending"])
            /\ pc' = "stop_stt"
       ELSE /\ pc' = "closed"
            /\ UNCHANGED <<is_transcribing, audio_to_transcribe, speech_buffer, runs, calls>>
    /\ UNCHANGED <<envVars, nSent, nBytes, clientGone, events, closeCode,
                   ring_buffer, unprocessed_audio, triggered,
                   transcription, asl_gloss, pose_array,
                   received, frames, labels, boundaries>>

\* json.loads raises JSONDecodeError (stt.py:214-216), or the value has no
\* .get and the generic handler catches the error (stt.py:217-219): break
ReceiveBadText ==
    /\ TextReceived
    /\ JsonLoads(Head(inbound).text).kind # "object"
    /\ inbound' = Tail(inbound)
    /\ pc' = "closed"
    /\ handled' = Append(handled, Handled(Head(inbound)))
    /\ UNCHANGED <<envVars, nSent, nBytes, clientGone, events, closeCode,
                   segVars, runVars, received, frames, labels, boundaries, runs, calls>>

\* any JSON object taken for a request to end the session
ReceiveOtherText_EndsSession ==
    /\ TextReceived
    /\ JsonLoads(Head(inbound).text).kind = "object"
    /\ JsonLoads(Head(inbound).text).text # "STOP"
    /\ inbound' = Tail(inbound)
    /\ pc' = "closed"
    /\ handled' = Append(handled, Handled(Head(inbound)))
    /\ UNCHANGED <<envVars, nSent, nBytes, clientGone, events, closeCode,
                   segVars, runVars, received, frames, labels, boundaries, runs, calls>>

\* a JSON object whose "text" is not "STOP": the if of stt.py:169 is false and
\* the loop goes back to websocket.receive()
ReceiveOtherText ==
    /\ TextReceived
    /\ JsonLoads(Head(inbound).text).kind = "object"
    /\ JsonLoads(Head(inbound).text).text # "STOP"
    /\ inbound' = Tail(inbound)
    /\ pc' = "receive"
    /\ handled' = Append(handled, Handled(Head(inbound)))
    /\ UNCHANGED <<envVars, nSent, nBytes, clientGone, events, closeCode,
                   segVars, runVars, received, frames, labels, boundaries, runs, calls>>

\* STOP running the final pipeline whenever the gate is free, without looking
\* at the buffer
ReceiveStop_AlwaysFlushes ==
    /\ TextReceived
    /\ JsonLoads(Head(inbound).text).kind = "object"
    /\ JsonLoads(Head(inbound).text).text = "STOP"
    /\ inbound' = Tail(inbound)
    /\ handled' = Append(handled, Handled(Head(inbound)))
    /\ IF ~is_transcribing
       THEN /\ is_transcribing' = TRUE
            /\ audio_to_transcribe' = speech_buffer
            /\ speech_buffer' = <<>>
            /\ runs' = Append(runs, Run("stop", speech_buffer))
            /\ calls' = Append(calls, [stage |-> "recognize", run |-> Len(runs) + 1,
                                       audio |-> speech_buffer, text |-> "",
                                       outcome |-> "pending"])
            /\ pc' = "stop_stt"
       ELSE /\ pc' = "closed"
            /\ UNCHANGED <<is_transcribing, audio_to_transcribe, speech_buffer, runs, calls>>
    /\ UNCHANGED <<envVars, nSent, nBytes, clientGone, events, closeCode,
                   ring_buffer, unprocessed_audio, triggered,
                   transcription, asl_gloss, pose_array,
                   received, frames, labels, boundaries>>

\* STOP leaving the loop at once, the buffer left unprocessed
ReceiveStop_BreaksAtOnce ==
    /\ TextReceived
    /\ JsonLoads(Head(inbound).text).kind = "object"
    /\ JsonLoads(Head(inbound).text).text = "STOP"
    /\ inbound' = Tail(inbound)
    /\ handled' = Append(handled, Handled(Head(inbound)))
    /\ pc' = "closed"
    /\ UNCHANGED <<envVars, nSent, nBytes, clientGone, events, closeCode,
                   segVars, runVars, received, frames, labels, boundaries, runs, calls>>

\* STOP: stt.py:169-187 and 208-212.  With speech buffered and the gate free
\* the buffer is copied, cleared and handed to recognition; otherwise break.
ReceiveStop ==
    /\ TextReceived
    /\ JsonLoads(Head(inbound).text).kind = "object"
    /\ JsonLoads(Head(inbound).text).text = "STOP"
    /\ inbound' = Tail(inbound)
    /\ handled' = Append(handled, Handled(Head(inbound)))
    /\ IF speech_buffer # <<>> /\ ~is_transcribing
       THEN /\ is_transcribing' = TRUE
            /\ audio_to_transcribe' = speech_buffer
            /\ speech_buffer' = <<>>
            /\ IF speech_buffer = <<>>
               THEN /\ pc' = "closed"
                    /\ UNCHANGED <<runs, calls>>
               ELSE /\ runs' = Append(runs, Run("stop", speech_buffer))
                    /\ calls' = Append(calls, [stage |-> "recognize", run |-> Len(runs) + 1,
                                               audio |-> speech_buffer, text |-> "",
                                       outcome |-> "pending"])
                    /\ pc' = "stop_stt"
       ELSE /\ pc' = "closed"
            /\ UNCHANGED <<is_transcribing, audio_to_transcribe, speech_buffer, runs, calls>>
    /\ UNCHANGED <<envVars, nSent, nBytes, clientGone, events, closeCode,
                   ring_buffer, unprocessed_audio, triggered,
                   transcription, asl_gloss, pose_array,
                   received, frames, labels, boundaries>>

\* transcribe_chunk returns in the STOP flush: stt.py:185-188, 207
StopTranscribeReturns ==
    /\ pc = "stop_stt"
    /\ \E out \in SegmentTexts \cup {RAISES} :
        LET text == TranscribeChunk(audio_to_transcribe, out)
        IN  /\ transcription' = text
            /\ calls' = Returned(TranscribeOutcome(out))
            /\ IF text = ""
               THEN /\ runs' = EndRun("empty")
                    /\ pc' = "closed"
               ELSE /\ pc' = "stop_send_final"
                    /\ UNCHANGED runs
    /\ UNCHANGED <<envVars, netVars, segVars, is_transcribing, audio_to_transcribe,
                   asl_gloss, pose_array, received, frames, labels, boundaries, handled>>

\* stt.py:190-194
StopSendFinal ==
    /\ pc = "stop_send_final"
    /\ events' = Append(events, Event("final", transcription, <<>>))
    /\ calls' = Append(calls, Call("translate", <<>>, transcription))
    /\ pc' = "stop_translate"
    /\ UNCHANGED <<envVars, inbound, nSent, nBytes, clientGone, closeCode, segVars, runVars,
                   received, frames, labels, boundaries, runs, handled>>

\* stt.py:192-198
StopTranslateReturns ==
    /\ pc = "stop_translate"
    /\ \E out \in DecoderTexts \cup {RAISES}, db \in DbStates :
        LET gloss == translate_to_gloss(transcription, out)
        IN  /\ asl_gloss' = gloss
            /\ pose_array' = get_poses_from_gloss(Chars(gloss), db)
            /\ calls' = Append(Returned(TranslateOutcome(transcription, out)),
                               [Call("render", <<>>, gloss)
                                   EXCEPT !.outcome = RenderOutcome(gloss, db)])
    /\ pc' = "stop_send_poses"
    /\ UNCHANGED <<envVars, netVars, segVars, is_transcribing, audio_to_transcribe,
                   transcription, received, frames, labels, boundaries, runs, handled>>

\* stt.py:200-207: the poses are sent and the loop is left; the gate is not
\* touched again
StopSendPoses ==
    /\ pc = "stop_send_poses"
    /\ events' = Append(events, Event("poses", "", pose_array))
    /\ runs' = EndRun("succeeded")
    /\ pc' = "closed"
    /\ UNCHANGED <<envVars, inbound, nSent, nBytes, clientGone, closeCode, segVars, runVars,
                   received, frames, labels, boundaries, calls, handled>>

\* The client has gone: websocket.receive() hands over the disconnect message,
\* which has neither "bytes" nor "text", and the next receive() raises; the
\* handlers of stt.py:224-227 end the coroutine.
ReceiveDisconnect ==
    /\ pc = "receive"
    /\ inbound # <<>>
    /\ Head(inbound).kind = "disconnect"
    /\ inbound' = Tail(inbound)
    /\ pc' = "closed"
    /\ handled' = Append(handled, Handled(Head(inbound)))
    /\ UNCHANGED <<envVars, nSent, nBytes, clientGone, events, closeCode,
                   segVars, runVars, received, frames, labels, boundaries, runs, calls>>

----------------------------------------------------------------------------

Next ==
    \/ ClientSendBytes
    \/ ClientSendText
    \/ ClientDisconnect
    \/ SetupNotReady
    \/ SetupRaises
    \/ SetupReady
    \/ ReceiveBytes
    \/ ChunkLoopExit
    \/ ProcessFrame
    \/ TranscribeReturns
    \/ SendFinal
    \/ TranslateReturns
    \/ SendPoses
    \/ ReceiveBadText
    \/ ReceiveOtherText
    \/ ReceiveStop
    \/ StopTranscribeReturns
    \/ StopSendFinal
    \/ StopTranslateReturns
    \/ StopSendPoses
    \/ ReceiveDisconnect

Spec == Init /\ [][Next]_vars

----------------------------------------------------------------------------
(* Properties *)

RECURSIVE Flatten(_)
\* the concatenation of a sequence of byte strings
Flatten(ss) == IF ss = <<>> THEN <<>> ELSE Head(ss) \o Flatten(Tail(ss))

\* the positions where a stage of a run is executing or an event of it is
\* being sent
RunPcs == {"stt", "send_final", "translate", "send_poses",
           "stop_stt", "stop_send_final", "stop_translate", "stop_send_poses"}

\* C1: at most one pipeline run (boundary-triggered or STOP flush) is in
\* progress at any instant, whatever the client sends meanwhile; a stage
\* executes only for the last run started, which then holds the gate.
C1_SingleFlight ==
    /\ Cardinality(RunsInProgress) <= 1
    /\ pc \in RunPcs => RunsInProgress = {Len(runs)} /\ is_transcribing

\* a second run is in progress while the client has a STOP or audio message
\* waiting on the connection, sent while that run was executing
C1_Witness ==
    /\ Len(runs) >= 2
    /\ RunsInProgress = {Len(runs)}
    /\ inbound # <<>>
    /\ Head(inbound).duringRun

\* C2: the frames cut so far, concatenated in the order they were cut, then
\* the bytes held in unprocessed_audio, are exactly the payloads received,
\* which are the client's stream in order.
C2_ChunkerKeepsStream ==
    /\ Flatten(frames) \o unprocessed_audio = received
    /\ received = Payload(0, Len(received))

\* frames were cut from payloads whose sizes are no multiple of the frame
\* length, and a remainder is held back
C2_Witness ==
    /\ Len(frames) >= 3
    /\ unprocessed_audio # <<>>
    /\ pc = "receive"

\* the labels speech, speech, then n times silence
SpeechSpeechSilence(n) ==
    [i \in 1..(2 + n) |-> IF i <= 2 THEN "speech" ELSE "silence"]

IsPrefix(a, b) == Len(a) <= Len(b) /\ SubSeq(b, 1, Len(a)) = a

\* C3: from a fresh session, on the labels speech, speech, silence x
\* RING_MAXLEN, no utterance-end is declared before the last of them, one is
\* declared at the frame carrying the RING_MAXLEN-th silence label, and none
\* after it as long as no speech frame follows.
C3_OneBoundaryPerSilenceRun ==
    LET n == 2 + RING_MAXLEN
    IN  /\ (IsPrefix(labels, SpeechSpeechSilence(RING_MAXLEN)) /\ Len(labels) < n)
              => boundaries = <<>>
        /\ IsPrefix(SpeechSpeechSilence(RING_MAXLEN), labels)
              => /\ boundaries # <<>>
                 /\ boundaries[1] = n
                 /\ (\A i \in (n + 1)..Len(labels) : labels[i] # "speech")
                       => boundaries = <<n>>

\* the silence went on for another full window after the utterance-end
C3_Witness ==
    /\ labels = SpeechSpeechSilence(2 * RING_MAXLEN)
    /\ boundaries = <<2 + RING_MAXLEN>>
    /\ pc = "receive"

\* the entries of handled that are STOP messages
IsStop(h) ==
    /\ h.msg.kind = "text"
    /\ JsonLoads(h.msg.text).kind = "object"
    /\ JsonLoads(h.msg.text).text = "STOP"

StopsHandled == {i \in 1..Len(handled) : IsStop(handled[i])}

\* C4: every byte string handed to recognition, at an utterance boundary or at
\* STOP, is non-empty, and a STOP received with no speech bytes buffered
\* starts no run.
C4_RecognizedAudioNonEmpty ==
    /\ \A i \in 1..Len(calls) : calls[i].stage = "recognize" => calls[i].audio # <<>>
    /\ \A r \in 1..Len(runs) : runs[r].audio # <<>>
    /\ pc \in {"stt", "stop_stt"} => audio_to_transcribe # <<>>
    /\ \A i \in StopsHandled : handled[i].buffer = <<>> => Len(runs) = handled[i].nRuns

\* recognition was called once at a boundary and once at STOP
C4_Witness ==
    /\ Len(runs) = 2
    /\ runs[1].kind = "boundary"
    /\ runs[2].kind = "stop"
    /\ pc = "stop_stt"

\* C5: a STOP is handled only when no run is pending, the session is never
\* closed with a run still pending, and a buffer that is non-empty when STOP
\* is handled is submitted, whole and without trailing silence, as exactly one
\* final run, which has ended when the session is closed.
C5_StopWaitsAndFlushes ==
    /\ pc = "closed" => RunsInProgress = {}
    /\ \A i \in StopsHandled :
          /\ ~handled[i].gate
          /\ RunsInProgress \subseteq {handled[i].nRuns + 1}
          /\ handled[i].buffer # <<>> =>
                /\ Len(runs) = handled[i].nRuns + 1
                /\ runs[Len(runs)].kind = "stop"
                /\ runs[Len(runs)].audio = handled[i].buffer
          /\ Cardinality({r \in 1..Len(runs) : runs[r].kind = "stop"})
                = (IF handled[i].buffer # <<>> THEN 1 ELSE 0)

\* a STOP sent while a boundary run was pending was handled after that run,
\* found speech in the buffer, and the final run completed before the close
C5_Witness ==
    /\ pc = "closed"
    /\ Len(runs) = 2
    /\ runs[1].kind = "boundary"
    /\ runs[2].kind = "stop"
    /\ runs[2].status = "succeeded"
    /\ \E i \in StopsHandled : handled[i].msg.duringRun /\ handled[i].buffer # <<>>

\* the number of speech labels that open the label sequence
LeadingSpeech ==
    Cardinality({i \in 1..Len(labels) : \A j \in 1..i : labels[j] = "speech"})

\* C6: from a fresh session, k >= 1 speech frames followed by at least
\* RING_MAXLEN silence frames submit exactly one utterance, at the
\* RING_MAXLEN-th silence frame, whose bytes are the k speech frames in
\* arrival order and nothing else.
C6_OneUtteranceOfSpeechBytes ==
    LET k == LeadingSpeech
    IN  (/\ k >= 1
         /\ Len(labels) >= k + RING_MAXLEN
         /\ \A i \in (k + 1)..Len(labels) : labels[i] = "silence")
        => /\ Len(runs) = 1
           /\ boundaries = <<k + RING_MAXLEN>>
           /\ runs[1].kind = "boundary"
           /\ runs[1].audio = Flatten(SubSeq(frames, 1, k))
           /\ calls[1].stage = "recognize"
           /\ calls[1].audio = Flatten(SubSeq(frames, 1, k))
           /\ Cardinality({i \in 1..Len(calls) : calls[i].stage = "recognize"}) = 1

\* three speech frames and a silence longer than the window; the run is over
C6_Witness ==
    /\ LeadingSpeech = 3
    /\ Len(labels) = 3 + RING_MAXLEN + 1
    /\ \A i \in 4..Len(labels) : labels[i] = "silence"
    /\ Len(runs) = 1
    /\ runs[1].status = "succeeded"

\* the events of run r, in the order they were sent
EventsOfRun(r) == SelectSeq(events, LAMBDA e : e.run = r)

\* their types
EventTypes(r) == [i \in 1..Len(EventsOfRun(r)) |-> EventsOfRun(r)[i].type]

\* the stages called for run r after recognition
LaterCalls(r) ==
    {i \in 1..Len(calls) : calls[i].run = r /\ calls[i].stage \in {"translate", "render"}}

\* a run that ended because recognition returned empty text called neither the
\* translator nor the renderer and sent no event
EmptyRunsAreSilent ==
    \A r \in 1..Len(runs) :
        runs[r].status = "empty" => LaterCalls(r) = {} /\ EventsOfRun(r) = <<>>

\* translate is never called with empty input
TranslateInputNonEmpty ==
    \A i \in 1..Len(calls) : calls[i].stage = "translate" => calls[i].text # ""

\* C7: when recognition returns empty text the run ends without a call of the
\* translator or the renderer and without an event, translate is never called
\* with empty input, and the gate is released, in a boundary-triggered run and
\* in the STOP flush alike.
C7_AsStated ==
    /\ EmptyRunsAreSilent
    /\ TranslateInputNonEmpty
    /\ (Len(runs) >= 1 /\ runs[Len(runs)].status = "empty") => ~is_transcribing

\* C8: a STOP received with an empty utterance buffer and no run pending ends
\* the intake loop at once: no stage is called, no run is started and no
\* event is sent from then on.
C8_StopOnEmptyBufferJustCloses ==
    \A i \in StopsHandled :
        (handled[i].buffer = <<>> /\ ~handled[i].gate) =>
            /\ pc = "closed"
            /\ Len(calls) = handled[i].nCalls
            /\ Len(runs) = handled[i].nRuns
            /\ Len(events) = handled[i].nEvents

\* the STOP came after audio had been segmented and a run had completed, with
\* nothing buffered since
C8_Witness ==
    /\ pc = "closed"
    /\ \E i \in StopsHandled : handled[i].buffer = <<>> /\ handled[i].nRuns = 1
    /\ Len(frames) >= 3

\* C9: a run that went through with non-empty recognition text sent exactly
\* one "final" event carrying that text and then exactly one "poses" event
\* carrying the rendered poses, also when these are empty; while a run is
\* pending it has sent nothing or the "final" event alone.
C9_FinalThenPoses ==
    \A r \in 1..Len(runs) :
        /\ runs[r].status = "succeeded" =>
              /\ EventTypes(r) = <<"final", "poses">>
              /\ EventsOfRun(r)[1].text # ""
        /\ runs[r].status = "pending" =>
              /\ EventTypes(r) = (IF pc \in {"translate", "send_poses",
                                             "stop_translate", "stop_send_poses"}
                                  THEN <<"final">> ELSE <<>>)
              /\ pc \in {"send_poses", "stop_send_poses"} =>
                    (transcription # "" /\ EventsOfRun(r)[1].text = transcription)
        /\ \A i \in 1..Len(EventsOfRun(r)) :
              EventsOfRun(r)[i].type = "poses" => runs[r].status = "succeeded"

\* a boundary run and a STOP flush both went through, one of them with no
\* poses to show
C9_Witness ==
    /\ Len(runs) = 2
    /\ runs[1].status = "succeeded"
    /\ runs[2].status = "succeeded"
    /\ runs[2].kind = "stop"
    /\ EventsOfRun(1)[2].poses = <<>>
    /\ EventsOfRun(2)[2].poses # <<>>

\* the frames from which the utterance of run r was collected: those after the
\* frame that completed the previous utterance, up to the one that completed
\* this one
UtteranceFrames(r) ==
    LET from == IF r = 1 THEN 1 ELSE runs[r - 1].frame + 1
    IN  SelectSeq([i \in 1..(runs[r].frame - from + 1) |-> from + i - 1],
                  LAMBDA i : labels[i] = "speech")

\* their bytes
UtteranceBytes(r) ==
    Flatten([i \in 1..Len(UtteranceFrames(r)) |-> frames[UtteranceFrames(r)[i]]])

\* C10: the r-th run processes the r-th completed utterance and starts only
\* when the run before it has ended, and in the outbound sequence every event
\* of an earlier run precedes every event of a later one.
C10_RunsInUtteranceOrder ==
    /\ \A r \in 1..Len(runs) :
          /\ r > 1 => runs[r - 1].frame < runs[r].frame
          /\ r < Len(runs) => runs[r].status # "pending"
          /\ runs[r].audio = UtteranceBytes(r)
    /\ \A i, j \in 1..Len(events) : i < j => events[i].run <= events[j].run

\* two runs have both sent their events
C10_Witness ==
    /\ Len(runs) = 2
    /\ Len(events) = 4
    /\ events[2].run = 1
    /\ events[3].run = 2
    /\ runs[2].kind = "boundary"

----------------------------------------------------------------------------
(* Classifier failures *)

RECURSIVE SegmenterAfter(_, _)
\* The segmenter's state after the first i frames, replayed from the frame and
\* label histories with the frames the classifier failed on either left out
\* (errorAs = "skip") or taken for non-speech (errorAs = "silence").
SegmenterAfter(i, errorAs) ==
    IF i = 0
    THEN [triggered |-> FALSE, speech_buffer |-> <<>>, ring_buffer |-> <<>>,
          boundaries |-> <<>>]
    ELSE LET before == SegmenterAfter(i - 1, errorAs)
             seg    == Segment(before.triggered, before.speech_buffer,
                               before.ring_buffer, FALSE, frames[i],
                               labels[i] = "speech")
         IN  IF labels[i] = "error" /\ errorAs = "skip"
             THEN before
             ELSE [triggered     |-> seg.triggered,
                   speech_buffer |-> seg.speech_buffer,
                   ring_buffer   |-> seg.ring_buffer,
                   boundaries    |-> IF seg.boundary
                                     THEN Append(before.boundaries, i)
                                     ELSE before.boundaries]

\* the segmenter's variables are those of the replay (as long as no STOP has
\* emptied the utterance buffer)
SegmenterIs(errorAs) ==
    (\A r \in 1..Len(runs) : runs[r].kind # "stop") =>
        LET replay == SegmenterAfter(Len(frames), errorAs)
        IN  /\ triggered = replay.triggered
            /\ speech_buffer = replay.speech_buffer
            /\ ring_buffer = replay.ring_buffer
            /\ boundaries = replay.boundaries

\* C11 as stated: a frame on which the classifier raises is handled exactly
\* like a frame labelled non-speech: its label is pushed into the trailing
\* window, it counts toward the run of silence, and the utterance-end check is
\* made on it.
C11_AsStated == SegmenterIs("silence")

\* C11: a frame on which the classifier raises is skipped: it is not appended
\* to the utterance buffer, not pushed into the trailing window, neither
\* counts toward nor interrupts the run of silence, no utterance-end check is
\* made on it, and the loop goes on with the next frame.
C11_ErrorFramesSkipped ==
    /\ SegmenterIs("skip")
    /\ (labels # <<>> /\ labels[Len(labels)] = "error" /\ Len(handled) = 0)
           => pc \in {"chunk", "receive"}

\* speech, a failed frame, then a full window of silence: the utterance ends
\* on the frame after the one on which it would have ended had the failed
\* frame counted as silence
C11_Witness ==
    /\ Len(labels) = RING_MAXLEN + 2
    /\ labels[1] = "speech"
    /\ labels[2] = "error"
    /\ \A i \in 3..Len(labels) : labels[i] = "silence"
    /\ boundaries = <<RING_MAXLEN + 2>>

----------------------------------------------------------------------------
(* Stage failures *)

\* the calls that came back failed
FailedCalls == {c \in 1..Len(calls) : calls[c].outcome = "failed"}

\* no stage of the same run is called after a failed one
NoStageAfterFailure ==
    \A c \in FailedCalls :
        \A d \in (c + 1)..Len(calls) : calls[d].run # calls[c].run

\* once the stages of a run with a failed call are over, the gate is free
GateFreeAfterFailure ==
    \A c \in FailedCalls :
        (calls[c].run = Len(runs) /\ pc \notin RunPcs) => ~is_transcribing

\* C12 as stated: if a stage of a run (recognize, translate or render) fails,
\* the run ends at that stage: no later stage of that run is invoked with the
\* failed stage's output, and the single-flight gate is released.
C12_AsStated ==
    /\ NoStageAfterFailure
    /\ GateFreeAfterFailure

\* the positions from which the session is ended: the setup check, a message
\* taken from the connection (malformed text, STOP, disconnect), and the end
\* of a STOP flush
EndingPcs == {"accepted", "receive", "stop_stt", "stop_send_poses"}

\* C13: no failure of the voice-activity classifier and no recognition,
\* translation or rendering failure in a boundary-triggered run ends the
\* session: the step on which the failure comes back leaves the coroutine in
\* its frame loop (or about to send the poses of the run), the connection is
\* not closed, and the session is ended only at the setup check, on a message
\* taken from the connection, or by a STOP flush.
C13_FailuresDoNotEndSession ==
    [][ /\ (Len(labels') > Len(labels) /\ labels'[Len(labels')] = "error")
            => (pc' = "chunk" /\ closeCode' = closeCode)
        /\ (FailedCalls' # FailedCalls /\ runs[Len(runs)].kind = "boundary")
            => (pc' \in {"chunk", "send_poses"} /\ closeCode' = closeCode)
        /\ (pc' \in {"closed", "raised"} /\ pc' # pc) => pc \in EndingPcs
      ]_vars

\* after a classifier failure and a failed stage of a boundary-triggered run,
\* later frames have been classified and the session waits for the next message
C13_Witness ==
    /\ pc = "receive"
    /\ \E i \in 1..Len(labels) : labels[i] = "error" /\ i < Len(labels)
    /\ \E c \in FailedCalls :
          /\ runs[calls[c].run].kind = "boundary"
          /\ runs[calls[c].run].frame + 1 < Len(frames)

----------------------------------------------------------------------------
(* Intake while a run is pending *)

\* a boundary-triggered run is pending
BoundaryRunPending ==
    \E r \in RunsInProgress : runs[r].kind = "boundary"

\* the client's next message, an audio payload, waits on the connection
AudioWaiting == inbound # <<>> /\ Head(inbound).kind = "bytes"

\* C14 as stated: submitting a completed utterance does not block frame
\* intake: while a pipeline run is pending, the session still accepts the next
\* inbound audio payload (and chunks, classifies and segments its frames).
C14_AsStated ==
    (BoundaryRunPending /\ AudioWaiting) => ENABLED ReceiveBytes

\* what the code does instead: as long as a run is pending the coroutine is
\* inside one of its stages, and the last frame classified is the one that
\* ended the utterance (a run records the number of frames before it)
IntakeWaitsForRun ==
    BoundaryRunPending =>
        /\ pc \in RunPcs
        /\ Len(frames) = runs[Len(runs)].frame + 1

----------------------------------------------------------------------------
(* What the client is told after STOP *)

\* the events sent since the i-th control message was taken
EventsSince(i) == SubSeq(events, handled[i].nEvents + 1, Len(events))

\* C15 as stated: for every STOP the session handles, the client receives at
\* least one result event ("final" or "poses") or an explicit "error" event
\* before the connection is closed, also when the buffer is empty and when the
\* final recognition returns empty text.
C15_AsStated ==
    pc = "closed" =>
        \A i \in StopsHandled :
            \E e \in 1..Len(EventsSince(i)) :
                EventsSince(i)[e].type \in {"final", "poses", "error"}

\* the two cases named by the claim: the session is closed after a STOP that
\* found the buffer empty, or whose recognition came back empty, and nothing
\* was sent since
StopLeftUnanswered ==
    /\ pc = "closed"
    /\ \E i \in StopsHandled :
          /\ EventsSince(i) = <<>>
          /\ \/ handled[i].buffer = <<>>
             \/ /\ Len(runs) > handled[i].nRuns
                /\ runs[Len(runs)].status = "empty"

----------------------------------------------------------------------------
(* Setup failure *)

\* C16: if at connection time the recognition model or the translator model
\* is not loaded, the connection is closed at once with status code 1011 (the
\* setup check can only close it) and the session does no segmentation: no
\* inbound message is received, no frame is classified, no run is started and
\* nothing is sent.
C16_MissingModelClosesAtOnce ==
    (~stt_model \/ ~translator_model) =>
        /\ pc \in {"accepted", "closed"}
        /\ pc = "accepted" =>
              /\ ENABLED SetupNotReady
              /\ ~ENABLED SetupReady
              /\ ~ENABLED SetupRaises
              /\ closeCode = 0
        /\ pc = "closed" => closeCode = 1011
        /\ received = <<>> /\ handled = <<>>
        /\ frames = <<>> /\ labels = <<>>
        /\ runs = <<>> /\ calls = <<>> /\ events = <<>>

\* the translator model is missing and the connection was closed with 1011
\* while audio sent by the client was waiting on it
C16_Witness ==
    /\ stt_model /\ ~translator_model
    /\ pc = "closed"
    /\ closeCode = 1011
    /\ \E i \in 1..Len(inbound) : inbound[i].kind = "bytes"

----------------------------------------------------------------------------
(* Transport errors *)

\* the record of a text message that json.loads or .get rejects, or of the
\* client's disconnect
IsTransportError(h) ==
    \/ h.msg.kind = "disconnect"
    \/ h.msg.kind = "text" /\ JsonLoads(h.msg.text).kind # "object"

\* C17: after a transport error (a text message that is not valid JSON, or a
\* client disconnect) the session does no further processing: the intake loop
\* is left, and since the message was taken no frame has been classified, no
\* run started or stage called (even with a non-empty utterance buffer), no
\* event sent and no other message taken.
C17_TransportErrorEndsProcessing ==
    \A i \in 1..Len(handled) :
        IsTransportError(handled[i]) =>
            /\ pc = "closed"
            /\ i = Len(handled)
            /\ Len(frames) = handled[i].nFrames
            /\ Len(runs) = handled[i].nRuns
            /\ Len(calls) = handled[i].nCalls
            /\ Len(events) = handled[i].nEvents

\* a text message that is not JSON was taken while the utterance buffer held
\* speech
C17_Witness ==
    /\ handled # <<>>
    /\ handled[Len(handled)].msg.kind = "text"
    /\ JsonLoads(handled[Len(handled)].msg.text).kind = "error"
    /\ handled[Len(handled)].buffer # <<>>
    /\ pc = "closed"

----------------------------------------------------------------------------
(* What the utterance buffer keeps *)

\* this step classifies one more frame
FrameStep == Len(frames') = Len(frames) + 1

\* this step declares an utterance-end
BoundaryStep == Len(boundaries') = Len(boundaries) + 1

\* C19 as stated: while the segmenter is Triggered, the bytes of every
\* incoming frame are appended to the utterance buffer regardless of the
\* frame's label, so the non-speech frames inside an utterance are part of the
\* submitted audio.
C19_AsStated ==
    [][ (triggered /\ FrameStep) =>
            LET all == speech_buffer \o frames'[Len(frames')]
            IN  IF BoundaryStep
                THEN audio_to_transcribe' = all
                ELSE speech_buffer' = all
      ]_vars

\* C19: the bytes of a frame are appended to the utterance buffer only when
\* the frame itself is labelled speech, Triggered or not; a non-speech frame
\* inside an utterance (and a frame the classifier failed on) leaves the
\* buffer as it is, so the submitted audio holds the speech-labelled frames
\* only.
C19_OnlySpeechFramesKept ==
    [][ FrameStep =>
            LET kept == IF labels'[Len(labels')] = "speech"
                        THEN speech_buffer \o frames'[Len(frames')]
                        ELSE speech_buffer
            IN  IF BoundaryStep
                THEN audio_to_transcribe' = kept /\ speech_buffer' = <<>>
                ELSE speech_buffer' = kept
      ]_vars

\* a short pause inside an utterance: speech, non-speech, speech, and the
\* buffer holds the first and the third frame
C19_Witness ==
    /\ labels = <<"speech", "silence", "speech">>
    /\ triggered
    /\ speech_buffer = frames[1] \o frames[3]

----------------------------------------------------------------------------
(* The length of the trailing silence *)

\* stt.py:22
FRAME_DURATION_MS == 30

\* stt.py:25
SILENCE_DURATION_S == 2

\* maxlen=int((SILENCE_DURATION_S * 1000) / FRAME_DURATION_MS), stt.py:79:
\* int() truncates the quotient
DequeMaxlen == (SILENCE_DURATION_S * 1000) \div FRAME_DURATION_MS

\* the labels of the frames that reached the segmenter, up to frame b
RECURSIVE SegmentedLabels(_)
SegmentedLabels(b) ==
    IF b = 0 THEN <<>>
    ELSE IF labels[b] = "error" THEN SegmentedLabels(b - 1)
    ELSE Append(SegmentedLabels(b - 1), labels[b])

\* every utterance-end was declared on a frame that completed a full window
\* of consecutive non-speech labels
BoundaryAfterFullWindow ==
    \A k \in 1..Len(boundaries) :
        LET ls == SegmentedLabels(boundaries[k])
        IN  /\ Len(ls) >= RING_MAXLEN
            /\ \A j \in (Len(ls) - RING_MAXLEN + 1)..Len(ls) : ls[j] = "silence"

\* C20 as stated: an utterance-end is declared only after at least the
\* configured trailing silence has elapsed: it follows a full window of N
\* consecutive non-speech frames, N stays the same for the session, and with
\* FRAME_DURATION_MS = 30 and SILENCE_DURATION_S = 2 the capacity N of the
\* deployed window satisfies N * FRAME_DURATION_MS >= SILENCE_DURATION_S * 1000.
C20_AsStated ==
    /\ BoundaryAfterFullWindow
    /\ Len(ring_buffer) <= RING_MAXLEN
    /\ boundaries # <<>> =>
          DequeMaxlen * FRAME_DURATION_MS >= SILENCE_DURATION_S * 1000

\* the part of C20 that the code keeps: a full window of non-speech labels
\* before every utterance-end, and a window within its capacity
WindowKept ==
    /\ BoundaryAfterFullWindow
    /\ Len(ring_buffer) <= RING_MAXLEN

----------------------------------------------------------------------------
(* The renderer called on its own: get_poses_from_gloss applied to gloss
   strings built from known and unknown tokens.  asl_gloss holds the argument
   (its characters), pose_array the value returned, pc where the call is and
   how the database answered. *)

RenderTokens ==
    { <<"h", "e", "l", "l", "o">>, <<"A">>, <<"b">>, <<"X", "y">>,
      <<"F", "S", "-", "A", "B">>, <<"f", "s", "-", "b", "a">>,
      <<"F", "S", "-">>, <<"F", "S">> }

TokenSeqs == UNION {[1..n -> RenderTokens] : n \in 0..MaxTokens}

RECURSIVE Join(_)
\* " ".join(tokens)
Join(tokens) ==
    IF tokens = <<>> THEN <<>>
    ELSE IF Len(tokens) = 1 THEN Head(tokens)
    ELSE Head(tokens) \o <<" ">> \o Join(Tail(tokens))

\* the gloss strings: tokens separated by one space, with or without white
\* space around them
GlossStrings ==
    {lead \o Join(ts) \o trail :
        ts \in TokenSeqs, lead \in {<<>>, <<" ">>}, trail \in {<<>>, <<" ", " ">>}}

RenderInit ==
    /\ stt_model = TRUE
    /\ translator_model = TRUE
    /\ pose_dictionary = "loaded"
    /\ inbound = <<>>
    /\ nSent = 0
    /\ nBytes = 0
    /\ clientGone = FALSE
    /\ events = <<>>
    /\ closeCode = 0
    /\ pc = "render"
    /\ ring_buffer = <<>>
    /\ speech_buffer = <<>>
    /\ unprocessed_audio = <<>>
    /\ triggered = FALSE
    /\ is_transcribing = FALSE
    /\ audio_to_transcribe = <<>>
    /\ transcription = ""
    /\ asl_gloss \in GlossStrings
    /\ pose_array = <<>>
    /\ received = <<>>
    /\ frames = <<>>
    /\ labels = <<>>
    /\ boundaries = <<>>
    /\ runs = <<>>
    /\ calls = <<>>
    /\ handled = <<>>

\* the call with the database file in place and readable
RenderCall ==
    /\ pc = "render"
    /\ pose_array' = get_poses_from_gloss(asl_gloss, "ok")
    /\ pc' = "rendered"
    /\ UNCHANGED <<envVars, netVars, segVars, is_transcribing, audio_to_transcribe,
                   transcription, asl_gloss, obsVars>>

\* the call with no database file: renderer.py:31-33
RenderCallDbMissing ==
    /\ pc = "render"
    /\ pose_array' = get_poses_from_gloss(asl_gloss, "missing")
    /\ pc' = "rendered_missing"
    /\ UNCHANGED <<envVars, netVars, segVars, is_transcribing, audio_to_transcribe,
                   transcription, asl_gloss, obsVars>>

\* the call during which sqlite3 raises: renderer.py:78-80
RenderCallSqlError ==
    /\ pc = "render"
    /\ pose_array' = get_poses_from_gloss(asl_gloss, "sqlerror")
    /\ pc' = "rendered_sqlerror"
    /\ UNCHANGED <<envVars, netVars, segVars, is_transcribing, audio_to_transcribe,
                   transcription, asl_gloss, obsVars>>

RenderNext ==
    \/ RenderCall
    \/ RenderCallDbMissing
    \/ RenderCallSqlError

RenderSpec == RenderInit /\ [][RenderNext]_vars

\* the glosses looked up for a token: the token itself, or the characters of
\* the name of a fingerspelling token
KeysOf(token) ==
    IF IsFingerspelled(token)
    THEN [i \in 1..Len(FsName(token)) |-> <<FsName(token)[i]>>]
    ELSE <<token>>

\* the glosses looked up for a gloss string, in token order
LookupKeys(gloss_string) ==
    LET tokens == Split(Upper(gloss_string))
    IN  Flatten([i \in 1..Len(tokens) |-> KeysOf(tokens[i])])

\* those with a row in the pose table
PresentKeys(gloss_string) ==
    SelectSeq(LookupKeys(gloss_string), LAMBDA k : PoseRows(k) # <<>>)

\* C18: for any gloss string, get_poses_from_gloss (with the database
\* readable) skips each token and each character of an FS- token that has no
\* row in the pose table and goes on with the next one: what it returns is
\* the concatenation, in token order, of the stored pose frames of exactly the
\* tokens and characters that are present.
C18_UnknownTokensSkipped ==
    pc = "rendered" =>
        /\ \E ts \in TokenSeqs :
              Split(Upper(asl_gloss)) = [i \in 1..Len(ts) |-> Upper(ts[i])]
        /\ pose_array =
              Flatten([i \in 1..Len(PresentKeys(asl_gloss)) |->
                          PoseRows(PresentKeys(asl_gloss)[i])])

\* an unknown token, then a fingerspelled name whose first character is
\* unknown and whose second is known: the frames of the known character alone
C18_Witness ==
    /\ pc = "rendered"
    /\ Split(Upper(asl_gloss)) = << <<"B">>, <<"F", "S", "-", "B", "A">> >>
    /\ pose_array = <<"A.1">>

----------------------------------------------------------------------------
(* Frame lengths and the held-back remainder *)

\* the bytes of a sequence, as a set
BytesOf(seq) == {seq[i] : i \in 1..Len(seq)}

\* C21: every frame passed to the voice-activity oracle has exactly
\* VAD_CHUNK_SIZE bytes; whenever the session waits for the next inbound
\* message the held-back remainder is shorter than VAD_CHUNK_SIZE and the
\* frames classified are the whole frames of the bytes received, no more (a
\* payload that leaves the remainder below one frame yields none); the
\* remainder is never classified nor recognized, also not at STOP.
C21_WholeFramesOnly ==
    /\ \A i \in 1..Len(frames) : Len(frames[i]) = VAD_CHUNK_SIZE
    /\ Len(frames) = Len(labels)
    /\ pc \in {"receive", "closed"} /\ closeCode = 0 =>
          /\ Len(unprocessed_audio) < VAD_CHUNK_SIZE
          /\ Len(frames) = Len(received) \div VAD_CHUNK_SIZE
    /\ \A i \in StopsHandled : Len(frames) = handled[i].nFrames
    /\ \A c \in 1..Len(calls) :
          BytesOf(calls[c].audio) \cap BytesOf(unprocessed_audio) = {}

\* a STOP flush has run to its end on a stream that ended in the middle of a
\* frame: frames were classified, part of a frame is still held back
C21_Witness ==
    /\ pc = "closed"
    /\ StopsHandled # {}
    /\ Len(runs) > 0 /\ runs[Len(runs)].kind = "stop"
    /\ runs[Len(runs)].status # "pending"
    /\ unprocessed_audio # <<>>
    /\ Len(frames) >= 2

----------------------------------------------------------------------------
(* The segmenter after an utterance-end *)

\* the positions inside a boundary-triggered run
BoundaryRunPcs == {"stt", "send_final", "translate", "send_poses"}

\* C22: on the step that declares an utterance-end, before any stage of the
\* resulting run has executed, the segmenter is back to Idle with an empty
\* utterance buffer and an empty trailing window, and the run has a copy of
\* the buffer as it was; the run leaves the segmenter as it is whatever its
\* outcome, and the audio of a run never changes afterwards.
C22_IdleAfterUtteranceEnd ==
    [][ /\ BoundaryStep =>
              /\ ~triggered' /\ speech_buffer' = <<>> /\ ring_buffer' = <<>>
              /\ audio_to_transcribe' = speech_buffer
              /\ pc' = "stt"
              /\ Len(runs') = Len(runs) + 1
              /\ runs'[Len(runs')].audio = speech_buffer
              /\ calls'[Len(calls')].stage = "recognize"
              /\ calls'[Len(calls')].outcome = "pending"
        /\ pc \in BoundaryRunPcs =>
              /\ ~triggered /\ speech_buffer = <<>> /\ ring_buffer = <<>>
              /\ UNCHANGED <<triggered, speech_buffer, ring_buffer>>
        /\ \A r \in 1..Len(runs) : runs'[r].audio = runs[r].audio
      ]_vars

\* a first run has ended and speech of the next utterance has been
\* accumulated since; the audio of the first run is still its one frame
C22_Witness ==
    /\ Len(runs) = 1
    /\ runs[1].kind = "boundary"
    /\ runs[1].status = "succeeded"
    /\ runs[1].audio = frames[1]
    /\ triggered
    /\ speech_buffer # <<>>

----------------------------------------------------------------------------
(* The gate and the events of a run *)

\* the gate is no longer held for run r
GateReleasedFor(r) == r < Len(runs) \/ ~is_transcribing

\* C23: in every boundary-triggered run that sends events, the gate is
\* released only after the last event of the run, the "poses" event, has been
\* handed to the transport: in no state is the gate free while an event of the
\* run is still to be sent.
C23_GateHeldUntilLastEvent ==
    /\ \A r \in 1..Len(runs) :
          (runs[r].kind = "boundary" /\ EventsOfRun(r) # <<>> /\ GateReleasedFor(r))
              => EventsOfRun(r)[Len(EventsOfRun(r))].type = "poses"
    /\ pc \in {"send_final", "translate", "send_poses"} => is_transcribing

\* the run has just sent its poses and released the gate
C23_Witness ==
    /\ Len(runs) = 1
    /\ runs[1].kind = "boundary"
    /\ EventTypes(1) = <<"final", "poses">>
    /\ ~is_transcribing
    /\ pc = "chunk"

\* C24: whenever the session loop waits for the next inbound message (and
\* while it cuts frames) the gate is free: every path through a
\* boundary-triggered run that does not end the session has released it, so
\* boundary detection is never left disabled.
C24_GateFreeAtReceive ==
    /\ pc \in {"receive", "chunk"} => ~is_transcribing
    /\ pc \in {"receive", "chunk"} => RunsInProgress = {}

\* after a run that ended on empty text a second utterance-end was detected,
\* its run went through, and the session waits for the next message
C24_Witness ==
    /\ pc = "receive"
    /\ Len(runs) = 2
    /\ runs[1].status = "empty"
    /\ runs[2].kind = "boundary"
    /\ runs[2].status = "succeeded"
    /\ ~is_transcribing

----------------------------------------------------------------------------
(* The readiness check with both models loaded *)

\* both models are loaded and the renderer module is the one of this
\* revision, which defines no pose_dictionary
ModelsLoaded == stt_model /\ translator_model /\ pose_dictionary = "absent"

\* C25 as stated: when the recognition model and the translator model are
\* both loaded at connection time, the readiness check admits the connection:
\* it neither closes it nor raises, and the session reaches the intake loop.
C25_AsStated ==
    ModelsLoaded => (pc # "raised" /\ closeCode # 1011)

\* what the code does instead: the check raises, and the session never
\* receives a message
NeverAdmitted ==
    ModelsLoaded =>
        /\ pc \in {"accepted", "raised"}
        /\ received = <<>> /\ handled = <<>> /\ frames = <<>>

----------------------------------------------------------------------------
(* Control messages other than STOP *)

\* this step takes a text message that is a JSON object whose "text" is not
\* "STOP"
OtherTextStep ==
    /\ Len(handled') = Len(handled) + 1
    /\ handled'[Len(handled')].msg.kind = "text"
    /\ JsonLoads(handled'[Len(handled')].msg.text).kind = "object"
    /\ JsonLoads(handled'[Len(handled')].msg.text).text # "STOP"

\* C26: a text message that parses as a JSON object whose "text" field is not
\* "STOP" changes no session state (utterance buffer, trailing window,
\* triggered flag, gate, chunker remainder), sends no event, starts no run and
\* calls no stage; the session stays open, back at websocket.receive().
C26_OtherTextChangesNothing ==
    [][ OtherTextStep =>
            /\ UNCHANGED <<segVars, runVars, events, closeCode>>
            /\ UNCHANGED <<received, frames, labels, boundaries, runs, calls>>
            /\ pc = "receive" /\ pc' = "receive"
      ]_vars

\* such a message was taken while speech was buffered, and the audio payload
\* sent after it has been received and its frames classified
C26_Witness ==
    /\ Len(handled) = 1
    /\ handled[1].msg.kind = "text"
    /\ JsonLoads(handled[1].msg.text).kind = "object"
    /\ JsonLoads(handled[1].msg.text).text # "STOP"
    /\ handled[1].buffer # <<>>
    /\ Len(frames) > handled[1].nFrames
    /\ pc = "receive"

====
